---- MODULE Spec2Model ----
(***************************************************************************)
(* Model of src/pptx_mcp_server.py: the text auto-fit layout engine        *)
(* (group classification, height estimation, font-size search, bullet      *)
(* normalisation, paragraph rewriting) and modify_presentation, which      *)
(* drives them over a batch of edits.                                      *)
(*                                                                         *)
(* Conventions.                                                            *)
(*  - A string is a sequence of one-character strings.                     *)
(*  - A length (shape.width, shape.height) is held in hundredths of an     *)
(*    inch; Length.inches of the code is that number / 100.                *)
(*  - A line-spacing factor is held in tenths (1.2 -> 12, 1.0 -> 10).      *)
(*  - A text height is held in units of 1/72000 inch, so that every        *)
(*    quantity of estimate_text_height and of the fit test is an integer.  *)
(*    The code computes them in binary floating point; the model computes  *)
(*    the exact rational values. The inputs below are chosen away from     *)
(*    the exact boundaries (a quotient that is a whole number of lines, a  *)
(*    height equal to the available height), where rounding could differ.  *)
(***************************************************************************)
EXTENDS Integers, Sequences, FiniteSets, TLC

VARIABLES
    call,                \* pure-function specifications: the pending call
    ret,                 \* pure-function specifications: its outcome
    prs,                 \* the presentation: slides, each a sequence of shapes
    modifications,       \* the batch of edits, in dict iteration order
    pc,                  \* modify_presentation: position in the function
    idx,                 \* modify_presentation: index of the running loop
    group_1_data,
    group_2_data,
    other_shapes_data,
    group_1_font_size,
    group_2_font_size,
    warnings,
    applied,             \* trace of the apply_text_with_formatting calls
    temp_files,          \* the server's registry: file_id -> path and name
    now,                 \* the server's clock, in ticks
    disk,                \* the temporary files saved, by path
    responses,           \* the results of the modify_template calls, in order
    served               \* the response of the last download_file request

vars == <<call, ret, prs, modifications, pc, idx, group_1_data, group_2_data,
          other_shapes_data, group_1_font_size, group_2_font_size, warnings,
          applied, temp_files, now, disk, responses, served>>

srvvars == <<temp_files, now, disk, responses, served>>

mpvars == <<prs, modifications, pc, idx, group_1_data, group_2_data,
            other_shapes_data, group_1_font_size, group_2_font_size, warnings,
            applied>>

fnvars == <<call, ret>>

(***************************************************************************)
(* Program constants                                                       *)
(***************************************************************************)
DEFAULT_FONT_SIZE == 12
MIN_FONT_SIZE == 8
MAX_FONT_SIZE == 14
\* LINE_SPACING = 1.2, in tenths
LINE_SPACING == 12
\* the literal 1.0 that modify_presentation passes for individual frames
INDIVIDUAL_LINE_SPACING == 10

(***************************************************************************)
(* Bounds of the model                                                     *)
(***************************************************************************)
\* solver inputs: min_size, max_size range over
\* MIN_FONT_SIZE - SizeSlack .. MAX_FONT_SIZE + SizeSlack
SizeSlack == 1
\* solver inputs: number of (text, shape) members of a group
MaxMembers == 2
\* estimator inputs: font sizes range over -EstNeg .. MAX_FONT_SIZE
EstNeg == 2
\* normaliser inputs: texts of at most MaxLen characters
MaxLen == 4
\* classifier inputs: names built from at most MaxFrags fragments
MaxFrags == 2
\* modify_presentation inputs: batches of at most MaxEdits edits
MaxEdits == 2
\* server: the clock runs over 0 .. MaxTicks ticks, TicksPerSecond ticks to
\* the second, and at most MaxCalls modify_template calls are made
MaxTicks == 3
TicksPerSecond == 2
MaxCalls == 2

(***************************************************************************)
(* Strings                                                                 *)
(***************************************************************************)
NL == "\n"

Rep(c, n) == [i \in 1..n |-> c]

Max2(a, b) == IF a >= b THEN a ELSE b
Min2(a, b) == IF a <= b THEN a ELSE b

\* math.ceil(n / d) for an integer n and d > 0
Ceil(n, d) == -((-n) \div d)

\* str.count('\n')
CountNL(text) == Cardinality({i \in 1..Len(text) : text[i] = NL})

(***************************************************************************)
(* estimate_text_height                                                    *)
(***************************************************************************)
ZeroDivisionError == [err |-> TRUE, height |-> 0, lines |-> 0]

\* a line count that falls with the square of the font size
wrapped_lines_per_size(text, font_size, shape_width) ==
    Ceil(Len(text) * 125 * 100, font_size * font_size * shape_width * 162)

\* chars_per_line = shape_width_points * 0.9 / (font_size * 0.5)
\*                = (width/100 * 72 * 0.9) / (font_size / 2)
\*                = width * 162 / (font_size * 125)
\* wrapped_lines  = ceil(text_length / chars_per_line)
\*                = ceil(text_length * font_size * 125 / (width * 162))
wrapped_lines(text, font_size, shape_width) ==
    Ceil(Len(text) * font_size * 125, shape_width * 162)

\* total_height_inches = total_lines * font_size * line_spacing / 72,
\* in 1/72000 inch: total_lines * font_size * (line_spacing tenths) * 100
estimate_text_height(text, font_size, shape_width, line_spacing) ==
    IF font_size = 0 \/ shape_width = 0
    THEN ZeroDivisionError
    ELSE LET explicit_lines == CountNL(text) + 1
             total_lines == Max2(explicit_lines,
                                 wrapped_lines(text, font_size, shape_width))
         IN  [err |-> FALSE,
              height |-> total_lines * font_size * line_spacing * 100,
              lines |-> total_lines]

(***************************************************************************)
(* find_optimal_font_size                                                  *)
(***************************************************************************)
\* available_height = shape_height.inches - shape_height.inches * 0.15,
\* in 1/72000 inch: height/100 * 0.85 * 72000
available_height(shape) == shape.height * 612

\* the fit test without the safety margin
fits_no_margin(text, shape, test_size, line_spacing) ==
    estimate_text_height(text, test_size, shape.width, line_spacing).height
        <= shape.height * 720

\* line 169: estimated_height <= available_height
fits(text, shape, test_size, line_spacing) ==
    estimate_text_height(text, test_size, shape.width, line_spacing).height
        <= available_height(shape)

\* the inner for ... else: the first test_size, from the given one down to
\* min_size, that fits; NoFit when the loop runs out (the else branch)
NoFit == 0

RECURSIVE probe(_, _, _, _, _)
probe(text, shape, test_size, min_size, line_spacing) ==
    IF test_size < min_size THEN NoFit
    ELSE IF fits(text, shape, test_size, line_spacing) THEN test_size
    ELSE probe(text, shape, test_size - 1, min_size, line_spacing)

\* line 153: if not text or not shape.has_text_frame: continue
skipped(text, shape) == text = <<>> \/ ~shape.has_text_frame

\* the size of the last member instead of the smaller one
combine_last(optimal_size, test_size) == test_size

\* line 172: optimal_size = min(optimal_size, test_size)
combine(optimal_size, test_size) == Min2(optimal_size, test_size)

\* the running size left as it is, and the size one below the floor
forced_keep(optimal_size, min_size) == optimal_size

forced_below(optimal_size, min_size) == min_size - 1

\* line 177: optimal_size = min_size
forced(optimal_size, min_size) == min_size

\* the outer loop, from member i on, with the running optimal_size
RECURSIVE solve_from(_, _, _, _, _, _)
solve_from(members, i, optimal_size, max_size, min_size, line_spacing) ==
    IF i > Len(members) THEN optimal_size
    ELSE LET text == members[i].text
             shape == members[i].shape
             best == probe(text, shape, max_size, min_size, line_spacing)
             next == IF skipped(text, shape) THEN optimal_size
                     ELSE IF best # NoFit THEN combine(optimal_size, best)
                     ELSE forced(optimal_size, min_size)
         IN  solve_from(members, i + 1, next, max_size, min_size, line_spacing)

find_optimal_font_size(members, max_size, min_size, line_spacing) ==
    IF members = <<>> THEN max_size
    ELSE solve_from(members, 1, max_size, max_size, min_size, line_spacing)

(***************************************************************************)
(* String operations of the Python runtime used by the code                *)
(***************************************************************************)
\* the accented letters are the tokens "e_acute" / "E_acute", the bullet
\* character U+2022 is the token "bullet"
LowerPairs ==
    {<<"A", "a">>, <<"C", "c">>, <<"E", "e">>, <<"I", "i">>, <<"L", "l">>,
     <<"M", "m">>, <<"O", "o">>, <<"R", "r">>, <<"S", "s">>, <<"T", "t">>,
     <<"U", "u">>, <<"Z", "z">>, <<"E_acute", "e_acute">>}

LowerChar(c) ==
    IF \E p \in LowerPairs : p[1] = c
    THEN (CHOOSE p \in LowerPairs : p[1] = c)[2]
    ELSE c

\* str.lower()
Lower(s) == [i \in 1..Len(s) |-> LowerChar(s[i])]

IsSpace(c) == c \in {" ", "\t", NL}

\* str.lstrip(), str.rstrip(), str.strip()
RECURSIVE LStrip(_)
LStrip(s) ==
    IF s # <<>> /\ IsSpace(s[1]) THEN LStrip(Tail(s)) ELSE s

RECURSIVE RStrip(_)
RStrip(s) ==
    IF s # <<>> /\ IsSpace(s[Len(s)]) THEN RStrip(SubSeq(s, 1, Len(s) - 1))
    ELSE s

Strip(s) == RStrip(LStrip(s))

\* s.startswith(prefix)
StartsWith(s, prefix) ==
    Len(prefix) <= Len(s) /\ SubSeq(s, 1, Len(prefix)) = prefix

\* sub in s
Contains(s, sub) ==
    \E k \in 0..(Len(s) - Len(sub)) : SubSeq(s, k + 1, k + Len(sub)) = sub

\* s.split('\n')
RECURSIVE Split(_)
Split(s) ==
    IF \A i \in 1..Len(s) : s[i] # NL THEN <<s>>
    ELSE LET k == CHOOSE i \in 1..Len(s) :
                      s[i] = NL /\ \A j \in 1..(i - 1) : s[j] # NL
         IN  <<SubSeq(s, 1, k - 1)>> \o Split(SubSeq(s, k + 1, Len(s)))

\* '\n'.join(parts)
RECURSIVE Join(_)
Join(parts) ==
    IF parts = <<>> THEN <<>>
    ELSE IF Len(parts) = 1 THEN parts[1]
    ELSE parts[1] \o <<NL>> \o Join(Tail(parts))

(***************************************************************************)
(* Group classification                                                    *)
(***************************************************************************)
kw_contexte ==
    <<"c", "o", "n", "t", "e", "x", "t", "e">>
kw_resultats ==
    <<"r", "e_acute", "s", "u", "l", "t", "a", "t", "s">>
kw_travaux ==
    <<"t", "r", "a", "v", "a", "u", "x", " ", "r", "e_acute", "a", "l", "i", "s", "e_acute", "s">>
kw_type ==
    <<"t", "y", "p", "e", " ", "d", "e", " ", "m", "i", "s", "s", "i", "o", "n">>
kw_outils ==
    <<"o", "u", "t", "i", "l", "s", " ", "u", "t", "i", "l", "i", "s", "e_acute", "s">>

GROUP_1_SHAPES == <<kw_contexte, kw_resultats, kw_travaux>>
GROUP_2_SHAPES == <<kw_type, kw_outils>>
NO_BULLET_SHAPES == <<kw_contexte>>

\* the group identifiers are 1 and 2; None is held as 0
None == 0

\* text_frame.text: the paragraphs' texts joined by line breaks
frame_text(shape) == Join([i \in 1..Len(shape.paras) |-> shape.paras[i].text])

normalize_shape_name(name) == Strip(Lower(name))

\* one "for keyword in ...: if keyword.lower() in name or ... in text" loop
matches(keywords, shape_name_normalized, shape_text_normalized) ==
    \E k \in 1..Len(keywords) :
        \/ Contains(shape_name_normalized, Lower(keywords[k]))
        \/ Contains(shape_text_normalized, Lower(keywords[k]))

\* the two keyword loops in the other order
get_shape_group_2_first(shape) ==
    IF ~shape.has_text_frame THEN None
    ELSE LET n == normalize_shape_name(shape.name)
             t == IF frame_text(shape) # <<>>
                  THEN normalize_shape_name(frame_text(shape)) ELSE <<>>
         IN  IF matches(GROUP_2_SHAPES, n, t) THEN 2
             ELSE IF matches(GROUP_1_SHAPES, n, t) THEN 1
             ELSE None

get_shape_group(shape) ==
    IF ~shape.has_text_frame THEN None
    ELSE LET shape_name_normalized == normalize_shape_name(shape.name)
             shape_text_normalized ==
                 IF frame_text(shape) # <<>>
                 THEN normalize_shape_name(frame_text(shape)) ELSE <<>>
         IN  IF matches(GROUP_1_SHAPES, shape_name_normalized,
                        shape_text_normalized) THEN 1
             ELSE IF matches(GROUP_2_SHAPES, shape_name_normalized,
                             shape_text_normalized) THEN 2
             ELSE None

should_have_bullets(shape) ==
    IF ~shape.has_text_frame THEN FALSE
    ELSE LET shape_name_normalized == normalize_shape_name(shape.name)
             shape_text_normalized ==
                 IF frame_text(shape) # <<>>
                 THEN normalize_shape_name(frame_text(shape)) ELSE <<>>
         IN  ~matches(NO_BULLET_SHAPES, shape_name_normalized,
                      shape_text_normalized)

(***************************************************************************)
(* clean_bullet_text                                                       *)
(***************************************************************************)
DropFirst(s, n) == SubSeq(s, n + 1, Len(s))

\* the if / elif chain of lines 200-211, on a stripped non-empty line
strip_marker(line) ==
    IF StartsWith(line, <<"bullet", " ">>) THEN DropFirst(line, 2)
    ELSE IF StartsWith(line, <<"bullet">>) THEN Strip(DropFirst(line, 1))
    ELSE IF StartsWith(line, <<"-", " ">>) THEN DropFirst(line, 2)
    ELSE IF StartsWith(line, <<"-">>) THEN Strip(DropFirst(line, 1))
    ELSE IF StartsWith(line, <<"*", " ">>) THEN DropFirst(line, 2)
    ELSE IF StartsWith(line, <<"*">>) THEN Strip(DropFirst(line, 1))
    ELSE line

RECURSIVE clean_lines(_)
clean_lines(lines) ==
    IF lines = <<>> THEN <<>>
    ELSE LET line == Strip(Head(lines))
         IN  IF line = <<>> THEN clean_lines(Tail(lines))
             ELSE <<strip_marker(line)>> \o clean_lines(Tail(lines))

clean_bullet_text(text) ==
    IF text = <<>> THEN text
    ELSE Join(clean_lines(Split(text)))

(***************************************************************************)
(* apply_text_with_formatting                                              *)
(***************************************************************************)
\* a paragraph: its text and its runs' font size (0: no run carries a size)
EmptyParagraph == [text |-> <<>>, size |-> 0]

\* text_frame.clear(): one empty paragraph is left
cleared == <<EmptyParagraph>>

\* the loop of lines 248-274 from line i on (i counts from 0, as enumerate)
RECURSIVE write_lines(_, _, _, _)
write_lines(paras, lines, i, font_size) ==
    IF i >= Len(lines) THEN paras
    ELSE LET line == lines[i + 1]
             p == [text |-> line, size |-> font_size]
         IN  IF Strip(line) = <<>>
             THEN write_lines(paras, lines, i + 1, font_size)
             ELSE IF i = 0
             THEN write_lines([paras EXCEPT ![1] = p], lines, i + 1, font_size)
             ELSE write_lines(Append(paras, p), lines, i + 1, font_size)

\* the shape after the call; the call returns shape.has_text_frame
apply_text_with_formatting(shape, text, font_size, use_bullets) ==
    IF ~shape.has_text_frame THEN shape
    ELSE LET should_use_bullets == use_bullets /\ should_have_bullets(shape)
             cleaned_text == IF should_use_bullets
                             THEN clean_bullet_text(text) ELSE text
         IN  [shape EXCEPT
                 !.paras = write_lines(cleared, Split(cleaned_text), 0, font_size)]

(***************************************************************************)
(* Inputs of the model: texts, names and shapes                            *)
(***************************************************************************)
s_Contexte ==
    <<"C", "o", "n", "t", "e", "x", "t", "e">>
s_RESULTATS ==
    <<"R", "E_acute", "S", "U", "L", "T", "A", "T", "S">>
s_Travaux ==
    <<"T", "r", "a", "v", "a", "u", "x", " ", "R", "e_acute", "a", "l", "i", "s", "e_acute", "s">>
s_Type ==
    <<"T", "y", "p", "e", " ", "d", "e", " ", "M", "i", "s", "s", "i", "o", "n">>
s_OUTILS ==
    <<"O", "U", "T", "I", "L", "S", " ", "U", "T", "I", "L", "I", "S", "E_acute", "S">>
s_Titre ==
    <<"T", "i", "t", "r", "e">>
s_Outils ==
    <<"O", "u", "t", "i", "l", "s">>
s_Resultat ==
    <<"R", "e_acute", "s", "u", "l", "t", "a", "t">>
s_Zone ==
    <<"Z", "o", "n", "e", " ", "2">>
s_Outils_padded ==
    <<" ", "O", "u", "t", "i", "l", "s", " ", "u", "t", "i", "l", "i", "s", "e_acute", "s", " ">>
s_Image ==
    <<"I", "m", "a", "g", "e", " ", "c", "o", "n", "t", "e", "x", "t", "e">>
t_short ==
    <<"s", "h", "o", "r", "t", " ", "t", "e", "x", "t">>
t_items ==
    <<"-", " ", "i", "t", "e", "m", " ", "o", "n", "e", "\n", "-", " ", "i", "t", "e", "m", " ", "t", "w", "o">>

\* replacement texts, by key: the state holds the key
TextKeys == {"empty", "short", "items", "x300", "x600"}

TextTable ==
    [key \in TextKeys |->
        CASE key = "empty" -> <<>>
          [] key = "short" -> t_short
          [] key = "items" -> t_items
          [] key = "x300" -> Rep("x", 300)
          [] key = "x600" -> Rep("x", 600)]

TextOf(key) == TextTable[key]

Label(s) == <<[text |-> s, size |-> 0]>>

\* shapes of a template, by key
ShapeOf(key) ==
    CASE key = "contexte" ->
           [name |-> s_Contexte, has_text_frame |-> TRUE,
            width |-> 400, height |-> 200, paras |-> Label(<<>>)]
      [] key = "resultats" ->
           [name |-> s_Zone, has_text_frame |-> TRUE,
            width |-> 400, height |-> 100, paras |-> Label(s_RESULTATS)]
      [] key = "outils" ->
           [name |-> s_Outils_padded, has_text_frame |-> TRUE,
            width |-> 300, height |-> 100, paras |-> Label(<<>>)]
      [] key = "titre" ->
           [name |-> s_Titre, has_text_frame |-> TRUE,
            width |-> 400, height |-> 50, paras |-> Label(s_Titre)]
      [] key = "image" ->
           [name |-> s_Image, has_text_frame |-> FALSE,
            width |-> 200, height |-> 200, paras |-> <<>>]
      [] key = "thin" ->
           [name |-> s_Travaux, has_text_frame |-> TRUE,
            width |-> 400, height |-> 20, paras |-> Label(<<>>)]

SeqsUpTo(S, n) == UNION {[1..k -> S] : k \in 0..n}

\* the outcome of a call: not yet there, or the value returned
Pending == [state |-> "pending"]
Returned(v) == [state |-> "returned", value |-> v]
Idle == "idle"

\* the server as the module is loaded: temp_files = {}, nothing saved
EmptyDict == [file_id \in {} |-> <<>>]

NotServed == [status |-> 0]

ServerIdle ==
    /\ temp_files = EmptyDict
    /\ now = 0
    /\ disk = <<>>
    /\ responses = <<>>
    /\ served = NotServed

\* modify_presentation is not running
ModifyIdle ==
    /\ prs = <<>>
    /\ modifications = <<>>
    /\ pc = Idle
    /\ idx = 0
    /\ group_1_data = <<>>
    /\ group_2_data = <<>>
    /\ other_shapes_data = <<>>
    /\ group_1_font_size = 0
    /\ group_2_font_size = 0
    /\ warnings = <<>>
    /\ applied = <<>>

(***************************************************************************)
(* find_optimal_font_size over bounded inputs                              *)
(***************************************************************************)
SolverMembers ==
    {[text |-> "x600", shape |-> "contexte"],
     [text |-> "x300", shape |-> "resultats"],
     [text |-> "x600", shape |-> "resultats"],
     [text |-> "items", shape |-> "outils"],
     [text |-> "empty", shape |-> "thin"],
     [text |-> "x300", shape |-> "image"]}

SolverSizes == (MIN_FONT_SIZE - SizeSlack)..(MAX_FONT_SIZE + SizeSlack)

Member(m) == [text |-> TextOf(m.text), shape |-> ShapeOf(m.shape)]

Members(ms) == [i \in 1..Len(ms) |-> Member(ms[i])]

InitSolver ==
    /\ call \in [op : {"find_optimal_font_size"},
                 members : SeqsUpTo(SolverMembers, MaxMembers),
                 max_size : SolverSizes,
                 min_size : SolverSizes,
                 line_spacing : {LINE_SPACING, INDIVIDUAL_LINE_SPACING}]
    /\ call.min_size <= call.max_size
    /\ ret = Pending
    /\ ModifyIdle
    /\ ServerIdle

SolverCall ==
    /\ call.op = "find_optimal_font_size"
    /\ ret = Pending
    /\ ret' = Returned(find_optimal_font_size(Members(call.members),
                      call.max_size, call.min_size, call.line_spacing))
    /\ UNCHANGED srvvars
    /\ UNCHANGED <<call, mpvars>>

SpecSolver == InitSolver /\ [][SolverCall]_vars

(***************************************************************************)
(* estimate_text_height over bounded inputs                                *)
(***************************************************************************)
InitEstimate ==
    /\ call \in [op : {"estimate_text_height"},
                 text : TextKeys,
                 font_size : (-EstNeg)..MAX_FONT_SIZE,
                 shape_width : {0, 300, 400},
                 line_spacing : {LINE_SPACING, INDIVIDUAL_LINE_SPACING}]
    /\ ret = Pending
    /\ ModifyIdle
    /\ ServerIdle

EstimateCall ==
    /\ call.op = "estimate_text_height"
    /\ ret = Pending
    /\ ret' = Returned(estimate_text_height(TextOf(call.text),
                      call.font_size, call.shape_width, call.line_spacing))
    /\ UNCHANGED srvvars
    /\ UNCHANGED <<call, mpvars>>

SpecEstimate == InitEstimate /\ [][EstimateCall]_vars

(***************************************************************************)
(* clean_bullet_text over bounded inputs                                   *)
(***************************************************************************)
BulletAlphabet == {"bullet", "-", "*", " ", "a", NL}

InitBullet ==
    /\ call \in [op : {"clean_bullet_text"},
                 text : SeqsUpTo(BulletAlphabet, MaxLen)]
    /\ ret = Pending
    /\ ModifyIdle
    /\ ServerIdle

BulletCall ==
    /\ call.op = "clean_bullet_text"
    /\ ret = Pending
    /\ ret' = Returned(clean_bullet_text(call.text))
    /\ UNCHANGED srvvars
    /\ UNCHANGED <<call, mpvars>>

SpecBullet == InitBullet /\ [][BulletCall]_vars

(***************************************************************************)
(* get_shape_group over bounded inputs                                     *)
(***************************************************************************)
\* fragments a name or a text is built from, by key
FragKeys == {"Contexte", "RESULTATS", "Travaux", "Type", "OUTILS", "Titre",
             "Outils", "Resultat", "space"}

FragOf(key) ==
    CASE key = "Contexte" -> s_Contexte
      [] key = "RESULTATS" -> s_RESULTATS
      [] key = "Travaux" -> s_Travaux
      [] key = "Type" -> s_Type
      [] key = "OUTILS" -> s_OUTILS
      [] key = "Titre" -> s_Titre
      [] key = "Outils" -> s_Outils
      [] key = "Resultat" -> s_Resultat
      [] key = "space" -> <<" ">>

RECURSIVE Concat(_)
Concat(keys) ==
    IF keys = <<>> THEN <<>> ELSE FragOf(Head(keys)) \o Concat(Tail(keys))

InitGroup ==
    /\ call \in [op : {"get_shape_group"},
                 name : SeqsUpTo(FragKeys, MaxFrags),
                 text : SeqsUpTo(FragKeys, 1),
                 has_text_frame : BOOLEAN]
    /\ ret = Pending
    /\ ModifyIdle
    /\ ServerIdle

CallShape ==
    [name |-> Concat(call.name), has_text_frame |-> call.has_text_frame,
     width |-> 400, height |-> 200, paras |-> Label(Concat(call.text))]

GroupCall ==
    /\ call.op = "get_shape_group"
    /\ ret = Pending
    /\ ret' = Returned(get_shape_group(CallShape))
    /\ UNCHANGED srvvars
    /\ UNCHANGED <<call, mpvars>>

SpecGroup == InitGroup /\ [][GroupCall]_vars

(***************************************************************************)
(* apply_text_with_formatting over bounded inputs                          *)
(***************************************************************************)
\* a frame without list markers, a frame with them that holds a paragraph,
\* a shape without text frame
ApplyShapes == {"contexte", "titre", "image"}

InitApply ==
    /\ call \in [op : {"apply_text_with_formatting"},
                 shape : ApplyShapes,
                 text : SeqsUpTo(BulletAlphabet, MaxLen),
                 font_size : {MIN_FONT_SIZE, MAX_FONT_SIZE},
                 use_bullets : BOOLEAN]
    /\ ret = Pending
    /\ ModifyIdle
    /\ ServerIdle

\* the value returned and the shape as the call leaves it
ApplyCall ==
    /\ call.op = "apply_text_with_formatting"
    /\ ret = Pending
    /\ ret' = Returned([result |-> ShapeOf(call.shape).has_text_frame,
                        shape |-> apply_text_with_formatting(
                                      ShapeOf(call.shape), call.text,
                                      call.font_size, call.use_bullets)])
    /\ UNCHANGED srvvars
    /\ UNCHANGED <<call, mpvars>>

SpecApply == InitApply /\ [][ApplyCall]_vars

(***************************************************************************)
(* modify_presentation                                                     *)
(***************************************************************************)
\* the downloaded template: one slide
Template ==
    <<<<ShapeOf("contexte"), ShapeOf("resultats"), ShapeOf("outils"),
        ShapeOf("titre"), ShapeOf("image")>>>>

\* the edits of a batch, flattened in the iteration order of the nested
\* dicts: slide index and shape index as int(key.split('_')[1]) gives them.
\* Two edits may address one frame ("shape_1" and "shape_01").
Edits ==
    {[slide |-> 0, shape |-> 0, text |-> "empty"],
     [slide |-> 0, shape |-> 0, text |-> "short"],
     [slide |-> 0, shape |-> 0, text |-> "items"],
     [slide |-> 0, shape |-> 0, text |-> "x600"],
     [slide |-> 0, shape |-> 1, text |-> "items"],
     [slide |-> 0, shape |-> 1, text |-> "x300"],
     [slide |-> 0, shape |-> 1, text |-> "x600"],
     [slide |-> 0, shape |-> 2, text |-> "items"],
     [slide |-> 0, shape |-> 2, text |-> "x600"],
     [slide |-> 0, shape |-> 3, text |-> "short"],
     [slide |-> 0, shape |-> 3, text |-> "x600"],
     [slide |-> 0, shape |-> 4, text |-> "short"],
     [slide |-> 0, shape |-> 5, text |-> "short"],
     [slide |-> 1, shape |-> 0, text |-> "short"]}

InitModify ==
    /\ call = [op |-> "modify_presentation"]
    /\ ret = Pending
    /\ prs = Template
    /\ modifications \in SeqsUpTo(Edits, MaxEdits)
    /\ pc = "collect"
    /\ idx = 1
    /\ group_1_data = <<>>
    /\ group_2_data = <<>>
    /\ other_shapes_data = <<>>
    /\ group_1_font_size = 0
    /\ group_2_font_size = 0
    /\ warnings = <<>>
    /\ applied = <<>>
    /\ ServerIdle

\* the shape an entry of a data list refers to, as it is now
shape_of(d) == prs[d.slide + 1][d.shape + 1]

data_members(data) ==
    [i \in 1..Len(data) |-> [text |-> TextOf(data[i].text),
                             shape |-> shape_of(data[i])]]

\* break instead of continue: the rest of the batch is left out
break_edit(i, n) == n + 1

\* lines 350-351 and 358-359: continue
skip_edit(i, n) == i + 1

\* Phase 1, one edit
Collect ==
    /\ pc = "collect"
    /\ idx <= Len(modifications)
    /\ LET e == modifications[idx]
           d == [text |-> e.text, slide |-> e.slide, shape |-> e.shape]
           in_range == e.slide < Len(prs) /\ e.shape < Len(prs[e.slide + 1])
           group == get_shape_group(prs[e.slide + 1][e.shape + 1])
       IN  /\ idx' = IF in_range THEN idx + 1
                     ELSE skip_edit(idx, Len(modifications))
           /\ group_1_data' = IF in_range /\ group = 1
                              THEN Append(group_1_data, d) ELSE group_1_data
           /\ group_2_data' = IF in_range /\ group = 2
                              THEN Append(group_2_data, d) ELSE group_2_data
           /\ other_shapes_data' = IF in_range /\ group = None
                                   THEN Append(other_shapes_data, d)
                                   ELSE other_shapes_data
    /\ UNCHANGED srvvars
    /\ UNCHANGED <<call, ret, prs, modifications, pc, group_1_font_size,
                   group_2_font_size, warnings, applied>>

CollectDone ==
    /\ pc = "collect"
    /\ idx > Len(modifications)
    /\ pc' = "solve1"
    /\ UNCHANGED srvvars
    /\ UNCHANGED <<call, ret, prs, modifications, idx, group_1_data,
                   group_2_data, other_shapes_data, group_1_font_size,
                   group_2_font_size, warnings, applied>>

\* the test with < in place of ==
needs_warning_strict(font_size) == font_size < MIN_FONT_SIZE

\* lines 392 and 413: if group_n_font_size == MIN_FONT_SIZE
needs_warning(font_size) == font_size = MIN_FONT_SIZE

\* lines 381-397 and 402-418: the size of a group and its warning
group_size(data) ==
    IF data # <<>>
    THEN find_optimal_font_size(data_members(data), MAX_FONT_SIZE,
                                MIN_FONT_SIZE, LINE_SPACING)
    ELSE DEFAULT_FONT_SIZE

group_warnings(data, font_size, label) ==
    IF data # <<>> /\ needs_warning(font_size)
    THEN Append(warnings, label) ELSE warnings

\* Phase 2
Group1Solve ==
    /\ pc = "solve1"
    /\ group_1_font_size' = group_size(group_1_data)
    /\ warnings' = group_warnings(group_1_data, group_1_font_size', "GROUPE 1")
    /\ pc' = "solve2"
    /\ UNCHANGED srvvars
    /\ UNCHANGED <<call, ret, prs, modifications, idx, group_1_data,
                   group_2_data, other_shapes_data, group_2_font_size, applied>>

\* Phase 2bis
Group2Solve ==
    /\ pc = "solve2"
    /\ group_2_font_size' = group_size(group_2_data)
    /\ warnings' = group_warnings(group_2_data, group_2_font_size', "GROUPE 2")
    /\ pc' = "apply1"
    /\ idx' = 1
    /\ UNCHANGED srvvars
    /\ UNCHANGED <<call, ret, prs, modifications, group_1_data, group_2_data,
                   other_shapes_data, group_1_font_size, applied>>

\* one call of apply_text_with_formatting from phase 3: the shape is
\* rewritten and the call is recorded with its result
apply_call(d, font_size, line_spacing, use_bullets) ==
    /\ prs' = [prs EXCEPT ![d.slide + 1][d.shape + 1] =
                  apply_text_with_formatting(shape_of(d), TextOf(d.text),
                                             font_size, use_bullets)]
    /\ applied' = Append(applied,
                         [slide |-> d.slide, shape |-> d.shape,
                          text |-> d.text, font_size |-> font_size,
                          line_spacing |-> line_spacing,
                          use_bullets |-> use_bullets,
                          result |-> shape_of(d).has_text_frame])

\* each member of group 1 written at the size it would get on its own
ApplyGroup1OwnSize ==
    /\ pc = "apply1"
    /\ idx <= Len(group_1_data)
    /\ apply_call(group_1_data[idx],
                  find_optimal_font_size(data_members(<<group_1_data[idx]>>),
                                         MAX_FONT_SIZE, MIN_FONT_SIZE,
                                         LINE_SPACING),
                  LINE_SPACING,
                  should_have_bullets(shape_of(group_1_data[idx])))
    /\ idx' = idx + 1
    /\ UNCHANGED srvvars
    /\ UNCHANGED <<call, ret, modifications, pc, group_1_data, group_2_data,
                   other_shapes_data, group_1_font_size, group_2_font_size,
                   warnings>>

\* Phase 3, group 1, one member
ApplyGroup1 ==
    /\ pc = "apply1"
    /\ idx <= Len(group_1_data)
    /\ apply_call(group_1_data[idx], group_1_font_size, LINE_SPACING,
                  should_have_bullets(shape_of(group_1_data[idx])))
    /\ idx' = idx + 1
    /\ UNCHANGED srvvars
    /\ UNCHANGED <<call, ret, modifications, pc, group_1_data, group_2_data,
                   other_shapes_data, group_1_font_size, group_2_font_size,
                   warnings>>

ApplyGroup1Done ==
    /\ pc = "apply1"
    /\ idx > Len(group_1_data)
    /\ pc' = "apply2"
    /\ idx' = 1
    /\ UNCHANGED srvvars
    /\ UNCHANGED <<call, ret, prs, modifications, group_1_data, group_2_data,
                   other_shapes_data, group_1_font_size, group_2_font_size,
                   warnings, applied>>

\* Phase 3, group 2, one member
ApplyGroup2 ==
    /\ pc = "apply2"
    /\ idx <= Len(group_2_data)
    /\ apply_call(group_2_data[idx], group_2_font_size, LINE_SPACING, TRUE)
    /\ idx' = idx + 1
    /\ UNCHANGED srvvars
    /\ UNCHANGED <<call, ret, modifications, pc, group_1_data, group_2_data,
                   other_shapes_data, group_1_font_size, group_2_font_size,
                   warnings>>

ApplyGroup2Done ==
    /\ pc = "apply2"
    /\ idx > Len(group_2_data)
    /\ pc' = "applyother"
    /\ idx' = 1
    /\ UNCHANGED srvvars
    /\ UNCHANGED <<call, ret, prs, modifications, group_1_data, group_2_data,
                   other_shapes_data, group_1_font_size, group_2_font_size,
                   warnings, applied>>

\* line 436: the size of one frame outside the groups
individual_size(d) ==
    find_optimal_font_size(data_members(<<d>>), MAX_FONT_SIZE, MIN_FONT_SIZE,
                           INDIVIDUAL_LINE_SPACING)

\* Phase 3, the other shapes, one member
ApplyOther ==
    /\ pc = "applyother"
    /\ idx <= Len(other_shapes_data)
    /\ apply_call(other_shapes_data[idx],
                  individual_size(other_shapes_data[idx]),
                  INDIVIDUAL_LINE_SPACING, TRUE)
    /\ idx' = idx + 1
    /\ UNCHANGED srvvars
    /\ UNCHANGED <<call, ret, modifications, pc, group_1_data, group_2_data,
                   other_shapes_data, group_1_font_size, group_2_font_size,
                   warnings>>

\* return prs, warnings
Return ==
    /\ pc = "applyother"
    /\ idx > Len(other_shapes_data)
    /\ pc' = "done"
    /\ ret' = Returned(warnings)
    /\ UNCHANGED srvvars
    /\ UNCHANGED <<call, prs, modifications, idx, group_1_data, group_2_data,
                   other_shapes_data, group_1_font_size, group_2_font_size,
                   warnings, applied>>

Next ==
    \/ Collect
    \/ CollectDone
    \/ Group1Solve
    \/ Group2Solve
    \/ ApplyGroup1
    \/ ApplyGroup1Done
    \/ ApplyGroup2
    \/ ApplyGroup2Done
    \/ ApplyOther
    \/ Return

Init == InitModify

Spec == Init /\ [][Next]_vars

\* find_optimal_font_size on its own and inside modify_presentation
InitSizes == InitSolver \/ InitModify

NextSizes == SolverCall \/ Next

SpecSizes == InitSizes /\ [][NextSizes]_vars

(***************************************************************************)
(* The server: the modify_template tool and the download endpoint          *)
(***************************************************************************)
\* re.sub(r'[<>:"/\\|?*]', '-', text): the characters replaced
Forbidden == {"<", ">", ":", "\"", "/", "\\", "|", "?", "*"}

\* str.strip(' .')
RECURSIVE LStripChars(_, _)
LStripChars(s, chars) ==
    IF s # <<>> /\ s[1] \in chars THEN LStripChars(Tail(s), chars) ELSE s

RECURSIVE RStripChars(_, _)
RStripChars(s, chars) ==
    IF s # <<>> /\ s[Len(s)] \in chars
    THEN RStripChars(SubSeq(s, 1, Len(s) - 1), chars)
    ELSE s

s_Document ==
    <<"D", "o", "c", "u", "m", "e", "n", "t">>

sanitize_filename(text) ==
    LET replaced == [i \in 1..Len(text) |->
                        IF text[i] \in Forbidden THEN "-" ELSE text[i]]
        stripped == RStripChars(LStripChars(replaced, {" ", "."}), {" ", "."})
    IN  IF stripped # <<>>
        THEN SubSeq(stripped, 1, Min2(50, Len(stripped)))
        ELSE s_Document

\* a number in decimal digits
DigitChar == <<"0", "1", "2", "3", "4", "5", "6", "7", "8", "9">>

RECURSIVE Digits(_)
Digits(n) ==
    IF n < 10 THEN <<DigitChar[n + 1]>>
    ELSE Digits(n \div 10) \o <<DigitChar[(n % 10) + 1]>>

\* datetime.now().strftime('%Y%m%d_%H%M%S'): the clock cut to the second;
\* the second is written as its number, one text per second as in the code
strftime(ticks) == Digits(ticks \div TicksPerSecond)

s_pptx_ ==
    <<"p", "p", "t", "x", "_">>
s_REX_ ==
    <<"R", "E", "X", "_">>
s_REX ==
    <<"R", "E", "X", " ", "-", " ">>
s_sep ==
    <<" ", "-", " ">>
s_ext ==
    <<".", "p", "p", "t", "x">>

\* file_id = f"pptx_{timestamp}"
file_id_of(timestamp) == s_pptx_ \o timestamp

\* the if / elif chain of lines 577-584
suggested_name_of(client, mission, consultant, timestamp) ==
    IF client # <<>> /\ mission # <<>> /\ consultant # <<>>
    THEN s_REX \o client \o s_sep \o mission \o s_sep \o consultant \o s_ext
    ELSE IF client # <<>> /\ mission # <<>>
    THEN s_REX \o client \o s_sep \o mission \o s_ext
    ELSE IF client # <<>>
    THEN s_REX \o client \o s_ext
    ELSE s_REX_ \o timestamp \o s_ext

\* the metadata of a request, by key; a missing entry reads as ''
MetadataKeys == {"full", "none", "slash"}

MetadataOf(key) ==
    CASE key = "full" ->
           [client |-> <<"A", "c", "m", "e">>,
            mission |-> <<"A", "u", "d", "i", "t">>,
            consultant |-> <<"L", "e", "a">>]
      [] key = "none" ->
           [client |-> <<>>, mission |-> <<>>, consultant |-> <<>>]
      [] key = "slash" ->
           [client |-> <<"a", "/", "b", ".">>,
            mission |-> <<" ", ".">>,
            consultant |-> <<"L", "e", "a">>]

\* temp_files[file_id] = {...}
dict_set(d, key, value) ==
    [k \in (DOMAIN d) \cup {key} |-> IF k = key THEN value ELSE d[k]]

InitServer ==
    /\ call = [op |-> "serve"]
    /\ ret = Pending
    /\ ModifyIdle
    /\ ServerIdle

\* time passes
Tick ==
    /\ call.op = "serve"
    /\ now < MaxTicks
    /\ now' = now + 1
    /\ UNCHANGED <<call, ret, mpvars, temp_files, disk, responses, served>>

\* tools/call modify_template, the call succeeds. The presentation that
\* download_pptx and modify_presentation produce is held as the number of
\* the request that made it; NamedTemporaryFile gives a path no other file
\* has (the paths are 1, 2, ...).
ModifyTemplate ==
    /\ call.op = "serve"
    /\ Len(responses) < MaxCalls
    /\ \E key \in MetadataKeys :
        LET metadata == MetadataOf(key)
            client == sanitize_filename(metadata.client)
            mission == sanitize_filename(metadata.mission)
            consultant == sanitize_filename(metadata.consultant)
            timestamp == strftime(now)
            file_id == file_id_of(timestamp)
            suggested_name ==
                suggested_name_of(client, mission, consultant, timestamp)
            output_file == Len(disk) + 1
            saved == Len(responses) + 1
        IN  /\ disk' = Append(disk, saved)
            /\ temp_files' = dict_set(temp_files, file_id,
                                      [path |-> output_file,
                                       suggested_name |-> suggested_name])
            /\ responses' = Append(responses,
                                   [ok |-> TRUE, file_id |-> file_id,
                                    suggested_name |-> suggested_name,
                                    saved |-> saved])
    /\ UNCHANGED <<call, ret, mpvars, now, served>>

\* tools/call modify_template, download_pptx or modify_presentation raises:
\* the except branch answers with an error and registers nothing
ModifyTemplateError ==
    /\ call.op = "serve"
    /\ Len(responses) < MaxCalls
    /\ responses' = Append(responses,
                           [ok |-> FALSE, file_id |-> <<>>,
                            suggested_name |-> <<>>, saved |-> 0])
    /\ UNCHANGED <<call, ret, mpvars, temp_files, now, disk, served>>

\* the file ids a client may ask for: those of the links returned so far
\* and one that was never returned
Asked ==
    {responses[i].file_id : i \in {j \in 1..Len(responses) : responses[j].ok}}
        \cup {file_id_of(<<"x">>)}

\* GET /download/<file_id>
download_file(file_id) ==
    IF file_id \notin DOMAIN temp_files
    THEN [status |-> 404, file_id |-> file_id, content |-> 0,
          download_name |-> <<>>]
    ELSE LET file_info == temp_files[file_id]
         IN  IF file_info.path \notin DOMAIN disk
             THEN [status |-> 404, file_id |-> file_id, content |-> 0,
                   download_name |-> <<>>]
             ELSE [status |-> 200, file_id |-> file_id,
                   content |-> disk[file_info.path],
                   download_name |-> file_info.suggested_name]

DownloadFile ==
    /\ call.op = "serve"
    /\ \E file_id \in Asked : served' = download_file(file_id)
    /\ UNCHANGED <<call, ret, mpvars, temp_files, now, disk, responses>>

NextServer ==
    \/ Tick
    \/ ModifyTemplate
    \/ ModifyTemplateError
    \/ DownloadFile

SpecServer == InitServer /\ [][NextServer]_vars

(***************************************************************************)
(* Properties of find_optimal_font_size                                    *)
(***************************************************************************)
SetMax(S) == CHOOSE x \in S : \A y \in S : y <= x
SetMin(S) == CHOOSE x \in S : \A y \in S : x <= y

SolverReturned ==
    call.op = "find_optimal_font_size" /\ ret.state = "returned"

CallMembers == Members(call.members)

\* whether the estimate of a member's text at a size is within its frame's
\* height less the safety margin, tabulated over the inputs of the solver
FitsTable ==
    [m \in SolverMembers, s \in SolverSizes,
     ls \in {LINE_SPACING, INDIVIDUAL_LINE_SPACING} |->
        fits(TextOf(m.text), ShapeOf(m.shape), s, ls)]

FitsAt(k, size) == FitsTable[call.members[k], size, call.line_spacing]

\* the candidate sizes of the call that fit member k
FittingSizes(k) == {s \in call.min_size..call.max_size : FitsAt(k, s)}

\* a member's own best size: the largest fitting candidate, min_size if none
BestSize(k) ==
    IF FittingSizes(k) = {} THEN call.min_size ELSE SetMax(FittingSizes(k))

\* the members the solver sizes: non-empty text in a text-capable frame
Sized ==
    {k \in 1..Len(call.members) :
        /\ TextOf(call.members[k].text) # <<>>
        /\ ShapeOf(call.members[k].shape).has_text_frame}

\* C1, as amended: the size returned is the minimum, over the members with
\* non-empty text in a text-capable frame, of the member's own best size
\* (largest fitting candidate of [min_size, max_size], min_size if none),
\* whatever their order; it is max_size when there is no such member.
C1_MinOverSizedMembers ==
    SolverReturned =>
        ret.value = IF Sized = {} THEN call.max_size
                    ELSE SetMin({BestSize(k) : k \in Sized})

\* C1 as stated: the minimum over all the members of the list.
C1_MinOverAllMembers ==
    (SolverReturned /\ call.members # <<>>) =>
        ret.value = SetMin({BestSize(k) : k \in 1..Len(call.members)})

\* two sized members, the first with the smaller best size
C1_Witness ==
    /\ SolverReturned
    /\ Sized = {1, 2}
    /\ BestSize(1) < BestSize(2)
    /\ ret.value = BestSize(1)
    /\ ret.value > call.min_size

\* C2: the size find_optimal_font_size returns lies in [min_size, max_size]
\* for every list of members, and every size modify_presentation passes to
\* apply_text_with_formatting lies in [MIN_FONT_SIZE, MAX_FONT_SIZE].
C2_SizesInRange ==
    /\ SolverReturned => ret.value \in call.min_size..call.max_size
    /\ \A k \in 1..Len(applied) :
           applied[k].font_size \in MIN_FONT_SIZE..MAX_FONT_SIZE

\* a call with a member that fits nothing and a member with empty text
C2_Witness ==
    /\ SolverReturned
    /\ call.min_size < call.max_size
    /\ \E k \in Sized : FittingSizes(k) = {}
    /\ \E k \in 1..Len(call.members) : call.members[k].text = "empty"
    /\ ret.value = call.min_size

\* C3, as amended: when every member with non-empty text in a text-capable
\* frame has a fitting candidate, the size returned keeps the estimate of
\* each such member within its available height.
C3_GroupSizeFitsSizedMembers ==
    (SolverReturned /\ \A k \in Sized : FittingSizes(k) # {})
    => \A k \in Sized : FitsAt(k, ret.value)

\* C3 as stated: every member of the group.
C3_GroupSizeFitsEveryMember ==
    (SolverReturned /\ \A k \in 1..Len(call.members) : FittingSizes(k) # {})
    => \A k \in 1..Len(call.members) : FitsAt(k, ret.value)

\* a generous member shrunk to the size of a tighter one, none forced
C3_Witness ==
    /\ SolverReturned
    /\ Sized = {1, 2}
    /\ \A k \in {1, 2} : FittingSizes(k) # {}
    /\ ret.value < BestSize(2)
    /\ FitsAt(2, ret.value)

(***************************************************************************)
(* Properties of modify_presentation                                       *)
(***************************************************************************)
AfterSolve == pc \in {"apply1", "apply2", "applyother", "done"}

HasWarning(label) == \E k \in 1..Len(warnings) : warnings[k] = label

GroupData(g) == IF g = 1 THEN group_1_data ELSE group_2_data
GroupSize(g) == IF g = 1 THEN group_1_font_size ELSE group_2_font_size
GroupLabel(g) == IF g = 1 THEN "GROUPE 1" ELSE "GROUPE 2"

\* the estimate of a group member's text at a size is within its frame's
\* available height
MemberFits(d, size, line_spacing) ==
    estimate_text_height(TextOf(d.text), size, shape_of(d).width,
                         line_spacing).height
        <= available_height(shape_of(d))

\* C4, as amended: a declared group has a warning exactly when its solved
\* size is MIN_FONT_SIZE, that is when one of its members with non-empty
\* text fits no candidate above MIN_FONT_SIZE, whether MIN_FONT_SIZE itself
\* fits that member or not; no group is warned about twice.
C4_WarningIffSizeAtMinimum ==
    AfterSolve =>
        /\ Len(warnings) <= 2
        /\ \A g \in {1, 2} :
            /\ HasWarning(GroupLabel(g)) <=>
                   (GroupData(g) # <<>> /\ GroupSize(g) = MIN_FONT_SIZE)
            /\ HasWarning(GroupLabel(g)) <=>
                   \E k \in 1..Len(GroupData(g)) :
                       /\ GroupData(g)[k].text # "empty"
                       /\ \A s \in (MIN_FONT_SIZE + 1)..MAX_FONT_SIZE :
                              ~MemberFits(GroupData(g)[k], s, LINE_SPACING)

\* C4 as stated: a warning exactly when a member fits no candidate at all.
C4_WarningIffForced ==
    AfterSolve =>
        \A g \in {1, 2} :
            HasWarning(GroupLabel(g)) <=>
                \E k \in 1..Len(GroupData(g)) :
                    \A s \in MIN_FONT_SIZE..MAX_FONT_SIZE :
                        ~MemberFits(GroupData(g)[k], s, LINE_SPACING)

\* group 1 is warned about although MIN_FONT_SIZE fits each of its members
C4_Witness ==
    /\ pc = "done"
    /\ HasWarning("GROUPE 1")
    /\ \A k \in 1..Len(group_1_data) :
           MemberFits(group_1_data[k], MIN_FONT_SIZE, LINE_SPACING)

\* C5: a frame of no group whose text fits no candidate is written at
\* MIN_FONT_SIZE and the warnings returned hold a warning about it (a
\* warning other than the two groups').
C5_IndividualForcedMinimumWarned ==
    pc = "done" =>
        \A k \in 1..Len(other_shapes_data) :
            LET d == other_shapes_data[k]
            IN  (/\ shape_of(d).has_text_frame
                 /\ d.text # "empty"
                 /\ \A s \in MIN_FONT_SIZE..MAX_FONT_SIZE :
                        ~MemberFits(d, s, INDIVIDUAL_LINE_SPACING))
                => /\ \E j \in 1..Len(applied) :
                          /\ applied[j].slide = d.slide
                          /\ applied[j].shape = d.shape
                          /\ applied[j].text = d.text
                          /\ applied[j].font_size = MIN_FONT_SIZE
                   /\ \E w \in 1..Len(ret.value) :
                          ret.value[w] \notin {"GROUPE 1", "GROUPE 2"}

\* Scenario B: the one edit of the batch puts 600 characters without a line
\* break into the group-1 frame of 4in by 2in
ScenarioB == <<[slide |-> 0, shape |-> 0, text |-> "x600"]>>

ScenarioBRan ==
    /\ pc = "done"
    /\ modifications = ScenarioB

\* C7, as amended: in Scenario B the solver stops at 9, the largest
\* candidate that fits (10 does not), and no warning is returned.
C7_ScenarioBSolvesTo9 ==
    ScenarioBRan =>
        /\ group_1_font_size = 9
        /\ MemberFits(group_1_data[1], 9, LINE_SPACING)
        /\ ~MemberFits(group_1_data[1], 10, LINE_SPACING)
        /\ applied[1].font_size = 9
        /\ ret.value = <<>>

\* C7 as stated: the solver walks down to 8 and a warning names the group.
C7_ScenarioBForcedMinimum ==
    ScenarioBRan =>
        /\ group_1_font_size = MIN_FONT_SIZE
        /\ HasWarning("GROUPE 1")

C7_Witness ==
    /\ ScenarioBRan
    /\ Len(group_1_data) = 1
    /\ shape_of(group_1_data[1]).width = 400
    /\ shape_of(group_1_data[1]).height = 200
    /\ Len(TextOf("x600")) = 600
    /\ CountNL(TextOf("x600")) = 0
    /\ Len(applied) = 1

\* an edit that addresses a text-capable frame of the presentation
ValidEdit(e) ==
    /\ e.slide < Len(prs)
    /\ e.shape < Len(prs[e.slide + 1])
    /\ prs[e.slide + 1][e.shape + 1].has_text_frame

Written(e) ==
    {j \in 1..Len(applied) :
        /\ applied[j].slide = e.slide
        /\ applied[j].shape = e.shape
        /\ applied[j].text = e.text
        /\ applied[j].result}

\* C10: when modify_presentation returns, every edit of the batch that
\* addresses a text-capable frame in range has been written to its frame,
\* whatever the other edits of the batch are (out of range, a frame that
\* cannot hold text, a text that fits no size): as many successful writes
\* as there are such edits.
C10_OtherEditsStillApplied ==
    pc = "done" =>
        /\ \A k \in 1..Len(modifications) :
               ValidEdit(modifications[k]) => Written(modifications[k]) # {}
        /\ Cardinality({j \in 1..Len(applied) : applied[j].result})
               = Cardinality({k \in 1..Len(modifications) :
                                 ValidEdit(modifications[k])})

\* a batch whose first edit cannot be applied and whose second one,
\* oversized, is
C10_Witness ==
    /\ pc = "done"
    /\ Len(modifications) = 2
    /\ ~ValidEdit(modifications[1])
    /\ ValidEdit(modifications[2])
    /\ modifications[2].text = "x600"
    /\ Written(modifications[2]) # {}

\* the entries of a group's data list that address the frame of a call
InGroup(a, g) ==
    {j \in 1..Len(GroupData(g)) :
        GroupData(g)[j].slide = a.slide /\ GroupData(g)[j].shape = a.shape}

\* the calls of apply_text_with_formatting made for an entry of a data list
CallsFor(d, trace) ==
    {k \in 1..Len(trace) :
        /\ trace[k].slide = d.slide
        /\ trace[k].shape = d.shape
        /\ trace[k].text = d.text}

\* C11: in every run of modify_presentation, a call of
\* apply_text_with_formatting on a member of group 1 or 2 is made only in
\* phase 3, when find_optimal_font_size has returned for that group (the
\* group's size is the solved size of its whole data list and no longer
\* changes, nor does the list), and with that size; when the function
\* returns, every entry of a group's list, two entries for one frame
\* included, has been applied, each with the group's one size.
C11_TwoPhaseOrdering ==
    [][/\ applied' # applied =>
            LET a == applied'[Len(applied')]
            IN  /\ pc \in {"apply1", "apply2", "applyother"}
                /\ applied' = Append(applied, a)
                /\ <<group_1_data', group_2_data'>>
                       = <<group_1_data, group_2_data>>
                /\ <<group_1_font_size', group_2_font_size'>>
                       = <<group_1_font_size, group_2_font_size>>
                /\ \A g \in {1, 2} :
                       InGroup(a, g) # {} =>
                           /\ GroupSize(g) = group_size(GroupData(g))
                           /\ a.font_size = GroupSize(g)
       /\ pc' = "done" =>
            \A g \in {1, 2} : \A j \in 1..Len(GroupData(g)') :
                /\ CallsFor(GroupData(g)'[j], applied') # {}
                /\ \A k \in CallsFor(GroupData(g)'[j], applied') :
                       applied'[k].font_size = GroupSize(g)'
      ]_vars

\* one group-1 frame addressed by two edits with different texts, one of
\* which would get a larger size on its own: both written at the group size
C11_Witness ==
    /\ pc = "done"
    /\ Len(group_1_data) = 2
    /\ group_1_data[1].shape = group_1_data[2].shape
    /\ group_1_data[1].text # group_1_data[2].text
    /\ Len(applied) = 2
    /\ applied[1].font_size = group_1_font_size
    /\ applied[2].font_size = group_1_font_size
    /\ \E j \in 1..2 :
           find_optimal_font_size(data_members(<<group_1_data[j]>>),
                                  MAX_FONT_SIZE, MIN_FONT_SIZE, LINE_SPACING)
               > group_1_font_size

(***************************************************************************)
(* Properties of apply_text_with_formatting                                *)
(***************************************************************************)
ApplyReturned ==
    call.op = "apply_text_with_formatting" /\ ret.state = "returned"

\* the text the call splits into lines: normalised when list markers are on
CallCleanedText ==
    IF call.use_bullets /\ should_have_bullets(ShapeOf(call.shape))
    THEN clean_bullet_text(call.text) ELSE call.text

IsNonBlank(line) == Strip(line) # <<>>

NonBlankLines(text) == SelectSeq(Split(text), IsNonBlank)

\* C12: after apply_text_with_formatting on a text-capable frame, the
\* frame's paragraphs are exactly the non-blank lines of the (possibly
\* normalised) text, in order, each at the given font size: nothing of the
\* previous paragraphs is left and no paragraph is empty, for every text.
C12_ParagraphsAreNonBlankLines ==
    (ApplyReturned /\ ShapeOf(call.shape).has_text_frame) =>
        ret.value.shape.paras =
            [i \in 1..Len(NonBlankLines(CallCleanedText)) |->
                [text |-> NonBlankLines(CallCleanedText)[i],
                 size |-> call.font_size]]

(***************************************************************************)
(* Properties of the server                                                *)
(***************************************************************************)
Successful == {i \in 1..Len(responses) : responses[i].ok}

\* C14: over any sequence of successful modify_template calls, no two calls
\* get the same file_id, and the link each call returned keeps serving the
\* file that call saved under the name that call suggested: the entry of
\* temp_files is never overwritten by a later call.
C14_LinksKeepTheirFile ==
    /\ \A i \in Successful : \A j \in Successful :
           i # j => responses[i].file_id # responses[j].file_id
    /\ \A i \in Successful :
           LET r == download_file(responses[i].file_id)
           IN  /\ r.status = 200
               /\ r.content = responses[i].saved
               /\ r.download_name = responses[i].suggested_name

(***************************************************************************)
(* Properties of estimate_text_height, clean_bullet_text, get_shape_group  *)
(***************************************************************************)
EstimateReturned ==
    call.op = "estimate_text_height" /\ ret.state = "returned"

\* the height estimated for the text, width and spacing of the call at
\* another font size
HeightAt(font_size) ==
    estimate_text_height(TextOf(call.text), font_size, call.shape_width,
                         call.line_spacing).height

\* C13: for a positive font size s1 and a positive width,
\* estimate_text_height returns a height that is at most the height it
\* returns at every size s2 >= s1 for the same text, width and spacing, and
\* a line count of at least 1, which is 1 for the empty text.
C13_HeightNonDecreasingInSize ==
    (EstimateReturned /\ call.font_size > 0 /\ call.shape_width > 0) =>
        /\ ~ret.value.err
        /\ \A s2 \in call.font_size..MAX_FONT_SIZE :
               ret.value.height <= HeightAt(s2)
        /\ ret.value.lines >= 1
        /\ TextOf(call.text) = <<>> => ret.value.lines = 1

\* a text that wraps: more lines than line breaks give, and a height
\* strictly below that of the next size
C13_Witness ==
    /\ EstimateReturned
    /\ call.font_size \in 1..(MAX_FONT_SIZE - 1)
    /\ call.shape_width > 0
    /\ ~ret.value.err
    /\ ret.value.lines > CountNL(TextOf(call.text)) + 1
    /\ ret.value.height < HeightAt(call.font_size + 1)

\* C8: estimate_text_height with font_size <= 0 fails; it returns no
\* height and line count.
C8_NonPositiveSizeRejected ==
    (call.op = "estimate_text_height" /\ ret.state = "returned"
        /\ call.font_size <= 0)
    => ret.value.err

\* C6: clean_bullet_text(clean_bullet_text(t)) = clean_bullet_text(t).
C6_Idempotent ==
    (call.op = "clean_bullet_text" /\ ret.state = "returned")
    => clean_bullet_text(ret.value) = ret.value

Group1Frags == {"Contexte", "RESULTATS", "Travaux"}
Group2Frags == {"Type", "OUTILS"}

UsesFrag(keys, frags) == \E i \in 1..Len(keys) : keys[i] \in frags

\* C9: a frame without a text container is in no group; otherwise a frame
\* whose name or text holds a group-1 keyword, in any letter case, is in
\* group 1 even if it also holds a group-2 keyword; otherwise one that holds
\* a group-2 keyword is in group 2; otherwise it is in no group.
C9_FirstMatchingGroupWins ==
    (call.op = "get_shape_group" /\ ret.state = "returned") =>
        ret.value =
            IF ~call.has_text_frame THEN None
            ELSE IF UsesFrag(call.name, Group1Frags)
                    \/ UsesFrag(call.text, Group1Frags) THEN 1
            ELSE IF UsesFrag(call.name, Group2Frags)
                    \/ UsesFrag(call.text, Group2Frags) THEN 2
            ELSE None

\* the name holds a group-2 keyword, the text a group-1 keyword in capitals
C9_Witness ==
    /\ call.op = "get_shape_group"
    /\ ret.state = "returned"
    /\ call.has_text_frame
    /\ UsesFrag(call.name, Group2Frags)
    /\ call.text = <<"RESULTATS">>
    /\ ret.value = 1

====
